---- MODULE Spec2Model ----
(***************************************************************************)
(* Model of bevy_render/src/render_resource/texture.rs: the Texture,       *)
(* TextureView and Sampler wrappers around reference-counted erased wgpu    *)
(* handles.                                                                 *)
(*                                                                          *)
(* A "resource" is what one construction call (a From impl, or              *)
(* Texture::create_view) builds: an id plus one erased handle, or, for a   *)
(* TextureView built from a wgpu::SurfaceTexture, two erased handles (the  *)
(* derived view and the frame).  A "value" is one Rust value of a wrapper  *)
(* type (the original or a clone).  Every value is owned by one thread, and *)
(* the steps of operations on different values interleave freely, one      *)
(* reference-count operation at a time.                                     *)
(***************************************************************************)
EXTENDS Integers, Sequences, FiniteSets

\* Number of construction calls the model follows.
MaxRes == 2
\* Number of wrapper values (originals and clones) the model follows.
MaxVals == 3
\* Number of distinct native handle values the graphics API may hand out.
MaxNative == 2

Slots == 1..MaxRes
Vals == 1..MaxVals
NativeVals == 1..MaxNative

VARIABLES
    uuid,   \* number of identifiers Uuid::new_v4 has produced
    res,    \* Slots -> the shared part of a resource (id assigned, reference counts, native state)
    val     \* Vals  -> one wrapper value: its fields and the position of the operation consuming it

vars == <<uuid, res, val>>

\* The wrapper kinds; "SurfaceTexture" and "TextureView" are the two variants of TextureViewValue.
Kinds == {"Texture", "TextureView", "SurfaceTexture", "Sampler"}

\* (mutant) the two fields declared the other way round.
FieldOrderSwapped == <<"texture", "view">>

\* TextureViewValue::SurfaceTexture { view, texture }: Rust clones (derive(Clone)) and
\* drops the fields of a variant in declaration order.
FieldOrder == <<"view", "texture">>

NoRes == [kind |-> "none", native |-> 0, id |-> 0,
          strong |-> 0, tstrong |-> 0,
          released |-> 0, treleased |-> 0, taken |-> FALSE, order |-> <<>>]

NoVal == [st |-> "none", res |-> 0, id |-> 0, view |-> FALSE, texture |-> FALSE,
          src |-> 0, ret |-> "-"]

\* Uuid::new_v4(): a value no earlier call has returned.
NewV4 == uuid + 1

\* The next unused slot / value.
FreeSlot == Cardinality({r \in Slots : res[r].kind # "none"}) + 1
FreeVal == Cardinality({v \in Vals : val[v].st # "none"}) + 1

\* Native handle values are opaque: a construction is handed either a value handed to an
\* earlier construction or a new one, and the new one is named by the next number.
FreshNative == Cardinality({res[r].native : r \in {x \in Slots : res[x].kind # "none"}}) + 1

\* The values that belong to resource r (the original and every clone, in any state).
ValuesOf(r) == {v \in Vals : val[v].st # "none" /\ val[v].res = r}

--------------------------------------------------------------------------
(* The erased handle (render_resource_wrapper!): an atomically reference-  *)
(* counted owner of one native value.  Each operator is one atomic step on *)
(* the count of handle f ("view": the wrapper's erased texture, view or    *)
(* sampler; "texture": the erased surface texture) of resource record rec. *)

\* ErasedX::new(value): count 1.
ErasedNew(kind, n, id) ==
    [NoRes EXCEPT !.kind = kind, !.native = n, !.id = id, !.strong = 1,
                  !.tstrong = IF kind = "SurfaceTexture" THEN 1 ELSE 0]

\* ErasedX::clone: one more owning reference.
ErasedClone(rec, f) ==
    IF f = "view" THEN [rec EXCEPT !.strong = @ + 1]
    ELSE [rec EXCEPT !.tstrong = @ + 1]

\* Drop of one reference; the native value is released by the drop that takes the count to 0.
ErasedDrop(rec, f) ==
    IF f = "view"
    THEN [rec EXCEPT !.strong = @ - 1,
                     !.released = IF rec.strong = 1 THEN @ + 1 ELSE @,
                     !.order = IF rec.strong = 1 THEN Append(@, "view") ELSE @]
    ELSE [rec EXCEPT !.tstrong = @ - 1,
                     !.treleased = IF rec.tstrong = 1 THEN @ + 1 ELSE @,
                     !.order = IF rec.tstrong = 1 THEN Append(@, "texture") ELSE @]

\* try_unwrap, first step: the atomic test "am I the sole reference".  On success the
\* native value moves out to the caller unreleased; on failure nothing changes and the
\* handle is still held (it is dropped by the next step).
TryUnwrapSole(rec) == rec.tstrong = 1
TryUnwrapOk(rec) == [rec EXCEPT !.tstrong = 0, !.taken = TRUE]

--------------------------------------------------------------------------
Init ==
    /\ uuid = 0
    /\ res = [r \in Slots |-> NoRes]
    /\ val = [v \in Vals |-> NoVal]

\* A construction call: the id given, erased handle(s) with count 1, one live value.
Construct(kind, n, id) ==
    /\ FreeSlot \in Slots
    /\ FreeVal \in Vals
    /\ n <= FreshNative
    /\ uuid' = NewV4
    /\ res' = [res EXCEPT ![FreeSlot] = ErasedNew(kind, n, id)]
    /\ val' = [val EXCEPT ![FreeVal] =
                 [NoVal EXCEPT !.st = "live", !.res = FreeSlot, !.id = id,
                               !.view = TRUE, !.texture = (kind = "SurfaceTexture")]]

\* impl From<wgpu::Texture> for Texture
FromTexture(n) == Construct("Texture", n, NewV4)

\* (mutant) the id derived from the native handle value instead of a fresh uuid.
FromTextureViewNativeId(n) == Construct("TextureView", n, n)

\* impl From<wgpu::TextureView> for TextureView
FromTextureView(n) == Construct("TextureView", n, NewV4)

\* impl From<wgpu::SurfaceTexture> for TextureView
FromSurfaceTexture(n) == Construct("SurfaceTexture", n, NewV4)

\* impl From<wgpu::Sampler> for Sampler
FromSampler(n) == Construct("Sampler", n, NewV4)

\* Texture::create_view(&self, desc): a Plain TextureView of the native view wgpu returns.
CreateView(v, n) ==
    /\ val[v].st = "live"
    /\ res[val[v].res].kind = "Texture"
    /\ FromTextureView(n)

--------------------------------------------------------------------------
\* The erased handles a value of this kind holds, in declaration order.
Fields(kind) == IF kind = "SurfaceTexture" THEN FieldOrder ELSE <<"view">>

\* Value record w with its handle f held (b = TRUE) or given up (b = FALSE).
Hold(w, f, b) ==
    IF f = "view" THEN [w EXCEPT !.view = b] ELSE [w EXCEPT !.texture = b]

\* A clone of v is being built from &v: v cannot be moved or dropped meanwhile.
Borrowed(v) == \E w \in Vals : val[w].st = "cloning" /\ val[w].src = v

\* (mutant) a clone that copies the handle without taking a reference of its own.
CloneNoRef(v) ==
    /\ val[v].st = "live"
    /\ FreeVal \in Vals
    /\ val' = [val EXCEPT ![FreeVal] = [val[v] EXCEPT !.src = 0]]
    /\ UNCHANGED <<uuid, res>>

\* derive(Clone): copies the id and clones the first erased handle; a value with a
\* single handle is complete at once.
Clone(v) ==
    /\ val[v].st = "live"
    /\ FreeVal \in Vals
    /\ LET r == val[v].res
           fs == Fields(res[r].kind)
       IN /\ res' = [res EXCEPT ![r] = ErasedClone(res[r], fs[1])]
          /\ val' = [val EXCEPT ![FreeVal] =
                       Hold([NoVal EXCEPT !.st = IF Len(fs) = 1 THEN "live" ELSE "cloning",
                                          !.res = r, !.id = val[v].id,
                                          !.src = IF Len(fs) = 1 THEN 0 ELSE v],
                            fs[1], TRUE)]
    /\ UNCHANGED uuid

\* derive(Clone) on the SurfaceTexture variant: the second erased handle.
CloneRest(w) ==
    /\ val[w].st = "cloning"
    /\ LET r == val[w].res
       IN /\ res' = [res EXCEPT ![r] = ErasedClone(res[r], FieldOrder[2])]
          /\ val' = [val EXCEPT ![w] =
                       Hold([val[w] EXCEPT !.st = "live", !.src = 0], FieldOrder[2], TRUE)]
    /\ UNCHANGED uuid

\* Drop glue of a wrapper value: the first erased handle in declaration order.
Drop(v) ==
    /\ val[v].st = "live"
    /\ ~Borrowed(v)
    /\ LET r == val[v].res
           fs == Fields(res[r].kind)
       IN /\ res' = [res EXCEPT ![r] = ErasedDrop(res[r], fs[1])]
          /\ val' = [val EXCEPT ![v] =
                       Hold([val[v] EXCEPT !.st = IF Len(fs) = 1 THEN "gone" ELSE "dropping"],
                            fs[1], FALSE)]
    /\ UNCHANGED uuid

\* (mutant) the second handle is forgotten instead of dropped.
DropRestLeak(v) ==
    /\ val[v].st = "dropping"
    /\ val' = [val EXCEPT ![v] = Hold([val[v] EXCEPT !.st = "gone"], FieldOrder[2], FALSE)]
    /\ UNCHANGED <<uuid, res>>

\* Drop glue of the SurfaceTexture variant: the second erased handle.
DropRest(v) ==
    /\ val[v].st = "dropping"
    /\ LET r == val[v].res
       IN /\ res' = [res EXCEPT ![r] = ErasedDrop(res[r], FieldOrder[2])]
          /\ val' = [val EXCEPT ![v] =
                       Hold([val[v] EXCEPT !.st = "gone"], FieldOrder[2], FALSE)]
    /\ UNCHANGED uuid

\* (mutant) the Plain arm keeps the consumed value's handle alive.
TakePlainLeak(v) ==
    /\ val[v].st = "live"
    /\ ~Borrowed(v)
    /\ res[val[v].res].kind = "TextureView"
    /\ val' = [val EXCEPT ![v] = [@ EXCEPT !.st = "returned", !.view = FALSE, !.ret = "None"]]
    /\ UNCHANGED <<uuid, res>>

\* take_surface_texture(self), arm TextureViewValue::TextureView(_) => None; self,
\* not moved from, is dropped when the function returns.
TakePlain(v) ==
    /\ val[v].st = "live"
    /\ ~Borrowed(v)
    /\ res[val[v].res].kind = "TextureView"
    /\ res' = [res EXCEPT ![val[v].res] = ErasedDrop(@, "view")]
    /\ val' = [val EXCEPT ![v] = [@ EXCEPT !.st = "returned", !.view = FALSE, !.ret = "None"]]
    /\ UNCHANGED uuid

\* (mutant) the frame is unwrapped whether or not other clones hold it.
TakeTryAlways(v) ==
    /\ val[v].st = "live"
    /\ ~Borrowed(v)
    /\ res[val[v].res].kind = "SurfaceTexture"
    /\ res' = [res EXCEPT ![val[v].res] = [@ EXCEPT !.tstrong = @ - 1, !.taken = TRUE]]
    /\ val' = [val EXCEPT ![v] =
                 [@ EXCEPT !.st = "take_drop", !.texture = FALSE, !.ret = "Some"]]
    /\ UNCHANGED uuid

\* take_surface_texture(self), arm SurfaceTexture { texture, .. } => texture.try_unwrap():
\* `texture` is moved out of self and try_unwrap tests for sole ownership.  The `view`
\* field stays in self.
TakeTry(v) ==
    /\ val[v].st = "live"
    /\ ~Borrowed(v)
    /\ res[val[v].res].kind = "SurfaceTexture"
    /\ LET r == val[v].res
       IN IF TryUnwrapSole(res[r])
          THEN /\ res' = [res EXCEPT ![r] = TryUnwrapOk(@)]
               /\ val' = [val EXCEPT ![v] =
                            [@ EXCEPT !.st = "take_drop", !.texture = FALSE, !.ret = "Some"]]
          ELSE /\ res' = res
               /\ val' = [val EXCEPT ![v] = [@ EXCEPT !.st = "take_err"]]
    /\ UNCHANGED uuid

\* try_unwrap, failure path: the handle it consumed is dropped and it returns None.
TryUnwrapErr(v) ==
    /\ val[v].st = "take_err"
    /\ res' = [res EXCEPT ![val[v].res] = ErasedDrop(@, "texture")]
    /\ val' = [val EXCEPT ![v] =
                 [@ EXCEPT !.st = "take_drop", !.texture = FALSE, !.ret = "None"]]
    /\ UNCHANGED uuid

\* (mutant) the view handle is given up only when no frame is returned.
TakeReturnKeepsView(v) ==
    /\ val[v].st = "take_drop"
    /\ res' = [res EXCEPT ![val[v].res] = IF val[v].ret = "Some" THEN @ ELSE ErasedDrop(@, "view")]
    /\ val' = [val EXCEPT ![v] = [@ EXCEPT !.st = "returned", !.view = FALSE]]
    /\ UNCHANGED uuid

\* take_surface_texture returns: what is left of self (the `view` field) is dropped at
\* the end of the function body, after try_unwrap has produced the result.
TakeReturn(v) ==
    /\ val[v].st = "take_drop"
    /\ res' = [res EXCEPT ![val[v].res] = ErasedDrop(@, "view")]
    /\ val' = [val EXCEPT ![v] = [@ EXCEPT !.st = "returned", !.view = FALSE]]
    /\ UNCHANGED uuid

Next ==
    \/ \E n \in NativeVals : FromTexture(n)
    \/ \E n \in NativeVals : FromTextureView(n)
    \/ \E n \in NativeVals : FromSurfaceTexture(n)
    \/ \E n \in NativeVals : FromSampler(n)
    \/ \E v \in Vals, n \in NativeVals : CreateView(v, n)
    \/ \E v \in Vals : Clone(v)
    \/ \E v \in Vals : CloneRest(v)
    \/ \E v \in Vals : Drop(v)
    \/ \E v \in Vals : DropRest(v)
    \/ \E v \in Vals : TakePlain(v)
    \/ \E v \in Vals : TakeTry(v)
    \/ \E v \in Vals : TryUnwrapErr(v)
    \/ \E v \in Vals : TakeReturn(v)

Spec == Init /\ [][Next]_vars

\* id(): the identifier stored in the value.
Id(v) == val[v].id

\* Deref: the native value a wrapper value dereferences to (always the primary handle:
\* the texture, the view, plain or derived, or the sampler) and whether it is still live.
Deref(v) == [native |-> res[val[v].res].native, live |-> res[val[v].res].released = 0]

TypeOK ==
    /\ uuid \in 0..MaxRes
    /\ \A r \in Slots : res[r].kind \in Kinds \cup {"none"}
    /\ \A v \in Vals : val[v].st \in {"none", "live", "cloning", "dropping", "take_err",
                                      "take_drop", "returned", "gone"}

--------------------------------------------------------------------------
(* Properties                                                               *)

Allocated == {r \in Slots : res[r].kind # "none"}
FrameBacked == {r \in Slots : res[r].kind = "SurfaceTexture"}
Plain == {r \in Slots : res[r].kind = "TextureView"}

\* The values of r that hold a reference to its primary handle / to its frame handle.
ViewHolders(r) == {v \in ValuesOf(r) : val[v].view}
TextureHolders(r) == {v \in ValuesOf(r) : val[v].texture}

\* No value of r has been passed to take_surface_texture.
DropOnly(r) == \A v \in ValuesOf(r) : val[v].st \in {"live", "cloning", "dropping", "gone"}

\* Every value of r has been consumed (dropped, or passed to take_surface_texture and returned).
AllDone(r) == \A v \in ValuesOf(r) : val[v].st \in {"gone", "returned"}

\* Value v makes a step from a state in `from` to a state in `to`.
Steps(v, from, to) == val[v].st \in from /\ val'[v].st \in to

\* C1: id() of every value, the original and each clone, at any point of its life, is the
\* id assigned by the construction call it comes from, and two construction calls never
\* assign the same id, also when they wrap the same native handle value.
C1_IdStableAndUnique ==
    /\ \A v \in Vals : val[v].st # "none" => Id(v) = res[val[v].res].id
    /\ \A r1, r2 \in Allocated : r1 # r2 => res[r1].id # res[r2].id

\* C1 witness: two constructions of the same kind from the same native handle value, one
\* of them cloned and a clone of it already dropped.
C1_Witness ==
    \E r1, r2 \in Allocated :
        /\ r1 # r2
        /\ res[r1].kind = res[r2].kind
        /\ res[r1].native = res[r2].native
        /\ \E v, w \in ValuesOf(r1) : v # w /\ val[v].st = "live" /\ val[w].st = "gone"

\* C2: a TextureView built from a frame and dropped without ever being cloned releases the
\* derived native view first (while the frame is still unreleased) and the frame second.
C2_TeardownOrder ==
    \A r \in FrameBacked :
        (Cardinality(ValuesOf(r)) = 1 /\ DropOnly(r)) =>
            \A v \in ValuesOf(r) :
                /\ val[v].st = "live" => res[r].order = <<>>
                /\ val[v].st = "dropping" => res[r].order = <<"view">>
                /\ val[v].st = "gone" => res[r].order = <<"view", "texture">>

\* C2 witness: such a view has been dropped completely.
C2_Witness ==
    \E r \in FrameBacked :
        /\ Cardinality(ValuesOf(r)) = 1
        /\ \A v \in ValuesOf(r) : val[v].st = "gone"
        /\ res[r].treleased = 1

\* C3: while the clones of a frame-backed view are only cloned and dropped, in every
\* interleaving of the single reference-count steps, the frame is released only when no
\* value holds a reference to the derived view any more.
C3_ConcurrentDropOrder ==
    \A r \in FrameBacked :
        (DropOnly(r) /\ res[r].treleased > 0) =>
            /\ ViewHolders(r) = {}
            /\ res[r].released = 1
            /\ res[r].order = <<"view", "texture">>

\* C3 witness: a frame-backed view with several clones, all of them dropped step by step
\* in some interleaving, whose frame has been released.
C3_Witness ==
    \E r \in FrameBacked :
        /\ DropOnly(r)
        /\ Cardinality(ValuesOf(r)) >= 2
        /\ res[r].treleased = 1

C5_ReleasedOnceAtLastDrop ==
    \A r \in Allocated :
        /\ res[r].released \in {0, 1}
        /\ res[r].released = 1 <=> ViewHolders(r) = {}
        /\ res[r].strong = Cardinality(ViewHolders(r))
        /\ \A v \in ViewHolders(r) : Deref(v).live /\ Deref(v).native = res[r].native

\* C5 witness: on one resource a clone has been dropped while another is alive, and another
\* resource has lost all its values and been released.
C5_Witness ==
    /\ \E r \in Allocated : \E v, w \in ValuesOf(r) :
          val[v].st = "gone" /\ val[w].st = "live" /\ res[r].released = 0
    /\ \E r \in Allocated : res[r].kind \in {"Texture", "Sampler"} /\ res[r].released = 1

\* C6: once take_surface_texture has returned the frame, the frame is unreleased and no
\* wrapper value holds it; once it has returned nothing while another clone still holds
\* the frame, the frame is unreleased; and when every clone has been consumed without any
\* call receiving the frame, the frame has been released, exactly once.
C6_FrameAfterTake ==
    \A r \in FrameBacked :
        /\ res[r].taken =>
             /\ res[r].treleased = 0
             /\ TextureHolders(r) = {}
             /\ Cardinality({v \in ValuesOf(r) : val[v].ret = "Some"}) = 1
        /\ (\E v \in ValuesOf(r) : val[v].ret = "None" /\ TextureHolders(r) \ {v} # {}) =>
             (res[r].treleased = 0 /\ ~res[r].taken)
        /\ (AllDone(r) /\ ~res[r].taken) => res[r].treleased = 1
        /\ res[r].treleased \in {0, 1}

\* C6 witness: a call failed because another clone was held, and that clone has since been
\* dropped, which released the frame.
C6_Witness ==
    \E r \in FrameBacked : \E v, w \in ValuesOf(r) :
        /\ val[v].st = "returned" /\ val[v].ret = "None"
        /\ val[w].st = "gone"
        /\ AllDone(r) /\ res[r].treleased = 1

\* C7 as stated: take_surface_texture on a Plain view returns nothing and changes no
\* state at all.
C7_PlainTakeMutatesNothing ==
    [][\A v \in Vals :
         (Steps(v, {"live"}, {"returned"}) /\ val[v].res \in Plain) =>
             (val'[v].ret = "None" /\ res' = res)
      ]_vars

\* C7 amended: take_surface_texture on a Plain view returns nothing; it consumes the value,
\* so the view's count falls by exactly one and the native view is released when this
\* was the last reference; the id, the other fields of the resource, every other resource
\* and every other value are unchanged.
C7_PlainTakeOnlyDropsSelf ==
    [][\A v \in Vals :
         (Steps(v, {"live"}, {"returned"}) /\ val[v].res \in Plain) =>
             LET r == val[v].res IN
             /\ val'[v].ret = "None"
             /\ ~val'[v].view
             /\ res'[r].strong = res[r].strong - 1
             /\ res'[r].released = (IF res[r].strong = 1 THEN 1 ELSE 0)
             /\ res' = [res EXCEPT ![r] = [@ EXCEPT !.strong = res'[r].strong,
                                                     !.released = res'[r].released,
                                                     !.order = res'[r].order]]
             /\ \A w \in Vals \ {v} : val'[w] = val[w]
             /\ uuid' = uuid
      ]_vars

\* C7 witness: a Plain view consumed by take_surface_texture with a clone left alive, and
\* one consumed as the last reference.
C7_Witness ==
    /\ \E r \in Plain : \E v, w \in ValuesOf(r) :
          val[v].st = "returned" /\ val[v].ret = "None" /\ val[w].st = "live"
    /\ \E r \in Plain : \E v \in ValuesOf(r) :
          val[v].st = "returned" /\ res[r].released = 1

\* C8: over clone, drop and take_surface_texture in any interleaving, the frame is neither
\* released nor returned to a caller while some value still holds a reference to the
\* derived view.
C8_FrameOutlivedByView ==
    \A r \in FrameBacked :
        (\/ res[r].treleased > 0
         \/ \E v \in ValuesOf(r) : val[v].st = "returned" /\ val[v].ret = "Some")
        => ViewHolders(r) = {}

\* C9: take_surface_texture on a frame-backed view gives up this value's view reference
\* in both outcomes: the steps before the return leave the view's count alone and the
\* value still holding it, the return lowers the count by exactly one and releases the
\* native view when the count was one, and a returned value holds no view reference.
C9_TakeDropsView ==
    [][\A v \in Vals :
         LET r == val[v].res IN
         /\ (Steps(v, {"live"}, {"take_err", "take_drop"}) \/ Steps(v, {"take_err"}, {"take_drop"})) =>
              /\ res'[r].strong = res[r].strong
              /\ val'[v].view
         /\ Steps(v, {"take_drop"}, {"returned"}) =>
              /\ val'[v].ret \in {"Some", "None"}
              /\ res'[r].strong = res[r].strong - 1
              /\ res'[r].released = (IF res[r].strong = 1 THEN 1 ELSE 0)
         /\ val'[v].st = "returned" => ~val'[v].view
      ]_vars

\* C9 witness: two calls on clones of one frame-backed view have returned, one with nothing
\* and one with the frame, and the native view has been released.
C9_Witness ==
    \E r \in FrameBacked : \E v, w \in ValuesOf(r) :
        /\ val[v].st = "returned" /\ val[v].ret = "None"
        /\ val[w].st = "returned" /\ val[w].ret = "Some"
        /\ res[r].released = 1

====
